---- MODULE Spec2Model ----
(***************************************************************************)
(* Four command-line wrappers over a cloud SDK: object storage             *)
(* (s3_manager.py), table store (dynamo_manager.py), notifications         *)
(* (sns_manager.py) and log storage (cwlogs_manager.py).                   *)
(*                                                                         *)
(* Each Python function is an operator from its arguments and a context    *)
(* c = [st, orc, trace] to a record [status, value, c]:                    *)
(*   st     the remote service's state, as the SDK calls read and write it *)
(*   orc    the answers the remote service gives to the calls still to     *)
(*          come, one per call, consumed in order                          *)
(*   trace  the events of the invocation so far, in program order: remote  *)
(*          calls (with the answer each got), log records, printed lines   *)
(* status is "return" or "raise"; value is the returned value or the       *)
(* exception's class.  One action is one invocation of a program.          *)
(***************************************************************************)
EXTENDS Integers, Sequences, FiniteSets, TLC

VARIABLES
    buckets,    \* object storage: names of the buckets of the account
    versions,   \* object storage: bucket name -> its object-version listing
    tables,     \* table store: names of the existing tables
    cmd,        \* the last invocation: program/function and its arguments
    trace,      \* the events of the last invocation, in program order
    result      \* how the last invocation ended: [status, value]

vars == <<buckets, versions, tables, cmd, trace, result>>

-----------------------------------------------------------------------------
(* Python values *)

\* None and optional values: None is the empty tuple, a present value x is <<x>>.
None == << >>
Some(x) == <<x>>

\* Python truthiness of an optional string/number: None and "" are falsy.
Truthy(opt) == opt # None /\ opt[1] # ""

\* `a or b` on an optional a and a plain default b: the plain value chosen.
OrElse(opt, default) == IF Truthy(opt) THEN opt[1] ELSE default

\* A dict with string keys: a function on the set of its keys.
EmptyDict == [k \in {} |-> None]
DictGet(d, k, default) == IF k \in DOMAIN d THEN d[k] ELSE default

\* The answers of the remote service to one SDK call: success, a provider
\* error (botocore.exceptions.ClientError), or any exception that is not a
\* ClientError (a connection failure, a WaiterError, a validation error).
Outcomes == {"ok", "ClientError", "OtherError"}

Oracles(n) == [1..n -> Outcomes]

Ctx(st, orc) == [st |-> st, orc |-> orc, trace |-> << >>]

Return(v, c) == [status |-> "return", value |-> v, c |-> c]
Raise(e, c) == [status |-> "raise", value |-> e, c |-> c]

Emit(c, ev) == [c EXCEPT !.trace = Append(@, ev)]

\* print(x)
PrintEv(x) == [kind |-> "print", text |-> x]
\* log.error / log.warning
LogEv(level, subject) == [kind |-> "log", level |-> level, subject |-> subject]

\* The answer the next remote call gets.
NextOutcome(c) == IF c.orc = << >> THEN "ok" ELSE Head(c.orc)

\* One SDK call: recorded with its answer; the state changes only on success.
Call(c, api, params, st2) ==
    LET o == NextOutcome(c) IN
    [outcome |-> o,
     c |-> [st |-> IF o = "ok" THEN st2 ELSE c.st,
            orc |-> IF c.orc = << >> THEN << >> ELSE Tail(c.orc),
            trace |-> Append(c.trace,
                             [kind |-> "call", api |-> api,
                              params |-> params, outcome |-> o])]]

IsCall(ev) == ev.kind = "call"
CallsOf(tr) == SelectSeq(tr, IsCall)
ApiCalls(tr, api) == SelectSeq(tr, LAMBDA ev : ev.kind = "call" /\ ev.api = api)
-----------------------------------------------------------------------------
(* dynamo_manager.py *)

TableNames == {"t1", "t2"}

\* The values a table-definition file holds; table_name's value is used as
\* the name of the table to create.
FileValues == TableNames

\* The keys a table-definition file may hold.
FileKeys == {"table_name", "pk", "pkdef", "extra"}

\* Longest table-definition file, in key/value members.
MaxFileKeys == 4

\* A JSON object as written in the file: its members <<key, value>> in order.
\* Members are distinct keys, except that one key may be repeated.
TableDefFiles ==
    UNION {[1..n -> FileKeys \X FileValues] : n \in 0..MaxFileKeys}

\* json.loads of an object: a dict keeps each key at the place of its first
\* occurrence and the value of its last.
RECURSIVE json_loads(_)
json_loads(members) ==
    IF members = << >> THEN [keys |-> << >>, val |-> EmptyDict]
    ELSE LET d == json_loads(SubSeq(members, 1, Len(members) - 1))
             k == members[Len(members)][1]
             v == members[Len(members)][2]
         IN IF k \in DOMAIN d.val
            THEN [keys |-> d.keys, val |-> [d.val EXCEPT ![k] = v]]
            ELSE [keys |-> Append(d.keys, k),
                  val |-> [x \in DOMAIN d.val \cup {k} |->
                              IF x = k THEN v ELSE d.val[x]]]

require_keys == <<"table_name", "pk", "pkdef">>

\* parse_tabledef: the key list must equal require_keys, order included.
parse_tabledef(conf_file, c) ==
    LET conf == json_loads(conf_file) IN
    IF require_keys = conf.keys
    THEN Return(conf, c)
    ELSE Raise("KeyError", c)

ReadCapacityUnits == 5
WriteCapacityUnits == 5

\* A create that does not wait for the table to exist.
create_dynamo_table_nowait(table_name, pk, pkdef, c) ==
    LET r1 == Call(c, "create_table",
                   [TableName |-> table_name, KeySchema |-> pk,
                    AttributeDefinitions |-> pkdef,
                    ReadCapacityUnits |-> ReadCapacityUnits,
                    WriteCapacityUnits |-> WriteCapacityUnits],
                   c.st \cup {table_name})
    IN IF r1.outcome # "ok" THEN Raise(r1.outcome, r1.c)
       ELSE Return([kind |-> "Table", name |-> table_name], r1.c)

create_dynamo_table(table_name, pk, pkdef, c) ==
    LET r1 == Call(c, "create_table",
                   [TableName |-> table_name, KeySchema |-> pk,
                    AttributeDefinitions |-> pkdef,
                    ReadCapacityUnits |-> ReadCapacityUnits,
                    WriteCapacityUnits |-> WriteCapacityUnits],
                   c.st \cup {table_name})
    IN IF r1.outcome # "ok" THEN Raise(r1.outcome, r1.c)
       ELSE LET r2 == Call(r1.c, "wait_table_exists",
                           [TableName |-> table_name], r1.c.st)
            IN IF r2.outcome # "ok" THEN Raise(r2.outcome, r2.c)
               ELSE Return([kind |-> "Table", name |-> table_name], r2.c)

get_dynamo_table(table_name) == [kind |-> "Table", name |-> table_name]

delete_dynamo_table(table_name, c) ==
    LET table == get_dynamo_table(table_name)
        r1 == Call(c, "delete_table", [TableName |-> table.name],
                   c.st \ {table.name})
    IN IF r1.outcome # "ok" THEN Raise(r1.outcome, r1.c)
       ELSE LET r2 == Call(r1.c, "wait_table_not_exists",
                           [TableName |-> table.name], r1.c.st)
            IN IF r2.outcome # "ok" THEN Raise(r2.outcome, r2.c)
               ELSE Return(TRUE, r2.c)

\* The command lines of the table-store program.
DynamoArgv ==
    {[sub |-> "create_table", tabledef |-> f] : f \in TableDefFiles}
    \cup {[sub |-> "delete_table", tablename |-> t] : t \in TableNames}
    \cup {[sub |-> "none"]}

\* The dispatcher: the subcommand's function, then print('Done').
dynamo_main(pargs, c) ==
    LET action == IF pargs.sub = "delete_table" THEN "delete_dynamo_table"
                  ELSE IF pargs.sub = "create_table" THEN "create_dynamo_table"
                  ELSE ""
    IN IF action = "delete_dynamo_table"
       THEN LET r == delete_dynamo_table(pargs.tablename, c)
            IN IF r.status = "raise" THEN r
               ELSE Return(None, Emit(r.c, PrintEv("Done")))
       ELSE IF action = "create_dynamo_table"
       THEN LET p == parse_tabledef(pargs.tabledef, c)
            IN IF p.status = "raise" THEN p
               ELSE LET conf == p.value.val
                        r == create_dynamo_table(conf["table_name"], conf["pk"],
                                                 conf["pkdef"], p.c)
                    IN IF r.status = "raise" THEN r
                       ELSE Return(None, Emit(r.c, PrintEv("Done")))
       ELSE Raise("SystemExit",
                  Emit(c, PrintEv("Invalid/Missing command.")))

-----------------------------------------------------------------------------
(* s3_manager.py *)

\* The bucket names of the account listing, in the order the listing gives.
BucketOrder == <<"b1", "b2", "b3">>
BucketNames == {BucketOrder[i] : i \in DOMAIN BucketOrder}

Regions == {None, Some(""), Some("eu-west-1")}

\* Object keys, file paths and key prefixes are strings: tuples of characters.
\* Truthiness of an optional string of this kind.
TruthyStr(opt) == opt # None /\ opt[1] # << >>
HasPrefix(key, p) == Len(p) <= Len(key) /\ SubSeq(key, 1, Len(p)) = p

FilePaths == {<<"x">>}
KeyPrefixes == {None, Some(<< >>), Some(<<"a">>), Some(<<"b">>)}

\* The keys of the objects a bucket holds at the start.
KeyPool == << <<"a", "x">>, <<"b", "x">>, <<"a", "y">> >>
KeyAt(i) == KeyPool[((i - 1) % Len(KeyPool)) + 1]

\* A version listing of n object-versions.
Listing(n) == [i \in 1..n |-> [Key |-> KeyAt(i), VersionId |-> i]]

NoVersions == [b \in BucketNames |-> << >>]

S3State(bs, vs) == [buckets |-> bs, versions |-> vs]

BucketHandle(name) == [kind |-> "Bucket", name |-> name]

\* A create_bucket without the try/except: a ClientError propagates.
create_bucket_nocatch(name, region, c) ==
    LET region2 == OrElse(region, "us-east-2")
        params == [Bucket |-> name, LocationConstraint |-> region2]
        r == Call(c, "create_bucket", params,
                  [c.st EXCEPT !.buckets = @ \cup {name}])
    IN IF r.outcome = "ok" THEN Return(TRUE, r.c)
       ELSE Raise(r.outcome, r.c)

\* create_bucket: the one remote call; a ClientError is logged and answered
\* with False, anything else propagates.
create_bucket(name, region, c) ==
    LET region2 == OrElse(region, "us-east-2")
        params == [Bucket |-> name, LocationConstraint |-> region2]
        r == Call(c, "create_bucket", params,
                  [c.st EXCEPT !.buckets = @ \cup {name}])
    IN IF r.outcome = "ok" THEN Return(TRUE, r.c)
       ELSE IF r.outcome = "ClientError"
       THEN Return(FALSE, Emit(r.c, LogEv("error", name)))
       ELSE Raise(r.outcome, r.c)

\* list_buckets: prints every name of the listing and the count.
list_buckets(c) ==
    LET r == Call(c, "list_buckets", EmptyDict, c.st)
        names == SelectSeq(BucketOrder, LAMBDA b : b \in c.st.buckets)
        lines == [i \in 1..Len(names) |-> PrintEv(names[i])]
    IN IF r.outcome # "ok" THEN Raise(r.outcome, r.c)
       ELSE Return(None,
                   [r.c EXCEPT !.trace =
                       @ \o lines \o <<PrintEv(<<"Found", Len(names)>>)>>])

\* A get_bucket that returns the handle it holds after the create, without
\* fetching the bucket again.
get_bucket_norefetch(name, create, region, c) ==
    LET r == Call(c, "load_bucket", [Bucket |-> name], c.st)
    IN IF r.outcome # "ok" THEN Raise(r.outcome, r.c)
       ELSE IF name \in r.c.st.buckets
       THEN Return(Some(BucketHandle(name)), r.c)
       ELSE IF create
       THEN LET r2 == create_bucket(name, region, r.c)
            IN IF r2.status = "raise" THEN r2
               ELSE Return(Some(BucketHandle(name)), r2.c)
       ELSE Return(None, Emit(r.c, LogEv("warning", name)))

\* A get_bucket that creates the missing bucket whatever the flag says.
get_bucket_autocreate(name, create, region, c) ==
    LET r == Call(c, "load_bucket", [Bucket |-> name], c.st)
    IN IF r.outcome # "ok" THEN Raise(r.outcome, r.c)
       ELSE IF name \in r.c.st.buckets
       THEN Return(Some(BucketHandle(name)), r.c)
       ELSE LET r2 == create_bucket(name, region, r.c)
            IN IF r2.status = "raise" THEN r2
               ELSE LET r3 == Call(r2.c, "load_bucket", [Bucket |-> name],
                                   r2.c.st)
                    IN IF r3.outcome # "ok" THEN Raise(r3.outcome, r3.c)
                       ELSE IF name \in r3.c.st.buckets
                       THEN Return(Some(BucketHandle(name)), r3.c)
                       ELSE Return(None, Emit(r3.c, LogEv("warning", name)))

\* get_bucket: bucket.creation_date loads the bucket (one remote fetch); the
\* value returned is Some(handle), or None for Python's bare return.
RECURSIVE get_bucket(_, _, _, _)
get_bucket(name, create, region, c) ==
    LET r == Call(c, "load_bucket", [Bucket |-> name], c.st)
    IN IF r.outcome # "ok" THEN Raise(r.outcome, r.c)
       ELSE IF name \in r.c.st.buckets
       THEN Return(Some(BucketHandle(name)), r.c)
       ELSE IF create
       THEN LET r2 == create_bucket(name, region, r.c)
            IN IF r2.status = "raise" THEN r2
               ELSE get_bucket(name, FALSE, None, r2.c)
       ELSE Return(None, Emit(r.c, LogEv("warning", name)))

\* The id the service gives the next version of a bucket: an id no version
\* of the bucket has (the least one, ids being opaque).
NextVersionId(vs) ==
    LET used == {vs[i].VersionId : i \in DOMAIN vs}
    IN CHOOSE m \in 1..(Len(vs) + 1) :
          m \notin used /\ \A k \in 1..(m - 1) : k \in used

\* create_bucket_object: get_bucket, then one upload. A missing bucket makes
\* bucket.Object an attribute access on None.
create_bucket_object(bucket_name, file_path, key_prefix, c) ==
    LET g == get_bucket(bucket_name, FALSE, None, c)
    IN IF g.status = "raise" THEN g
       ELSE IF g.value = None THEN Raise("AttributeError", g.c)
       ELSE LET dest == (IF TruthyStr(key_prefix) THEN key_prefix[1] ELSE << >>)
                            \o file_path
                vs == g.c.st.versions[bucket_name]
                r == Call(g.c, "upload_file",
                          [Bucket |-> bucket_name, Key |-> dest,
                           Filename |-> file_path],
                          [g.c.st EXCEPT !.versions[bucket_name] =
                              Append(@, [Key |-> dest,
                                         VersionId |-> NextVersionId(vs)])])
            IN IF r.outcome # "ok" THEN Raise(r.outcome, r.c)
               ELSE Return([kind |-> "Object", bucket |-> bucket_name,
                            key |-> dest], r.c)

\* pathlib on strings of characters. A path is parsed into its root and its
\* parts: the text is split at "/", empty and "." components are dropped.
RECURSIVE SplitPath(_)
SplitPath(s) ==
    IF s = << >> THEN << << >> >>
    ELSE LET rest == SplitPath(Tail(s))
         IN IF Head(s) = "/" THEN << << >> >> \o rest
            ELSE << <<Head(s)>> \o Head(rest) >> \o Tail(rest)

PathParts(s) == SelectSeq(SplitPath(s), LAMBDA p : p # << >> /\ p # <<".">>)

\* The root of a POSIX path: exactly two leading slashes are kept, any other
\* number of them is one.
PathRoot(s) ==
    IF Len(s) >= 1 /\ s[1] = "/"
    THEN IF Len(s) >= 2 /\ s[2] = "/" /\ ~(Len(s) >= 3 /\ s[3] = "/")
         THEN <<"/", "/">>
         ELSE <<"/">>
    ELSE << >>

\* PosixPath(s).name: the last part, or the empty string when there is none.
PathName(s) ==
    LET ps == PathParts(s) IN IF ps = << >> THEN << >> ELSE ps[Len(ps)]

RECURSIVE JoinParts(_)
JoinParts(ps) ==
    IF ps = << >> THEN << >>
    ELSE IF Len(ps) = 1 THEN ps[1]
    ELSE ps[1] \o <<"/">> \o JoinParts(Tail(ps))

\* str(Path(dest).joinpath(name)) for a name that is one part or empty.
JoinPath(dest, name) ==
    LET ps == PathParts(dest) \o (IF name = << >> THEN << >> ELSE <<name>>)
        root == PathRoot(dest)
    IN IF root = << >> /\ ps = << >> THEN <<".">>
       ELSE root \o JoinParts(ps)

\* get_bucket_object: get_bucket, then one download to dest joined with the
\* name of the key. bucket.Object(**params) takes the key alone: a VersionId
\* keyword is refused by the resource constructor before any remote call.
get_bucket_object(bucket_name, object_key, dest, version_id, c) ==
    LET g == get_bucket(bucket_name, FALSE, None, c)
    IN IF g.status = "raise" THEN g
       ELSE IF g.value = None THEN Raise("AttributeError", g.c)
       ELSE IF Truthy(version_id) THEN Raise("ValueError", g.c)
       ELSE LET file_path == JoinPath(IF TruthyStr(dest) THEN dest[1] ELSE << >>,
                                      PathName(object_key))
                r == Call(g.c, "download_file",
                          [Bucket |-> bucket_name, Key |-> object_key,
                           Filename |-> file_path], g.c.st)
            IN IF r.outcome # "ok" THEN Raise(r.outcome, r.c)
               ELSE Return(<<[kind |-> "Object", bucket |-> bucket_name,
                              key |-> object_key], file_path>>, r.c)

\* enable_bucket_versioning: get_bucket, enable, then read the status back.
enable_bucket_versioning(bucket_name, c) ==
    LET g == get_bucket(bucket_name, FALSE, None, c)
    IN IF g.status = "raise" THEN g
       ELSE IF g.value = None THEN Raise("AttributeError", g.c)
       ELSE LET r1 == Call(g.c, "put_bucket_versioning",
                           [Bucket |-> bucket_name, Status |-> "Enabled"],
                           g.c.st)
            IN IF r1.outcome # "ok" THEN Raise(r1.outcome, r1.c)
               ELSE LET r2 == Call(r1.c, "get_bucket_versioning",
                                   [Bucket |-> bucket_name], r1.c.st)
                    IN IF r2.outcome # "ok" THEN Raise(r2.outcome, r2.c)
                       ELSE Return("Enabled", r2.c)

\* The targets of a version listing: one {Key, VersionId} per object-version.
TargetsOf(objects) ==
    [i \in 1..Len(objects) |->
        [Key |-> objects[i].Key, VersionId |-> objects[i].VersionId]]

\* What is left of a listing once the targets are deleted.
Remaining(vs, targets) ==
    LET gone == {targets[i] : i \in DOMAIN targets}
    IN SelectSeq(vs, LAMBDA v : v \notin gone)

\* A delete_bucket_objects that issues no delete call when nothing is listed.
delete_bucket_objects_skip_empty(bucket_name, key_prefix, c) ==
    LET g == get_bucket(bucket_name, FALSE, None, c)
    IN IF g.status = "raise" THEN g
       ELSE IF g.value = None THEN Raise("AttributeError", g.c)
       ELSE LET vs == g.c.st.versions[bucket_name]
                params == IF TruthyStr(key_prefix)
                          THEN [Bucket |-> bucket_name, Prefix |-> key_prefix[1]]
                          ELSE [Bucket |-> bucket_name]
                objects == IF TruthyStr(key_prefix)
                           THEN SelectSeq(vs, LAMBDA v :
                                              HasPrefix(v.Key, key_prefix[1]))
                           ELSE vs
                l == Call(g.c, "list_object_versions", params, g.c.st)
            IN IF l.outcome # "ok" THEN Raise(l.outcome, l.c)
               ELSE IF objects = << >> THEN Return(0, l.c)
               ELSE LET targets == TargetsOf(objects)
                        d == Call(l.c, "delete_objects",
                                  [Bucket |-> bucket_name, Objects |-> targets,
                                   Quiet |-> TRUE],
                                  [l.c.st EXCEPT !.versions[bucket_name] =
                                      Remaining(@, targets)])
                    IN IF d.outcome # "ok" THEN Raise(d.outcome, d.c)
                       ELSE Return(Len(targets), d.c)

\* delete_bucket_objects: get_bucket, the version listing (all of it, or the
\* versions under the prefix), one delete_objects call with every target.
delete_bucket_objects(bucket_name, key_prefix, c) ==
    LET g == get_bucket(bucket_name, FALSE, None, c)
    IN IF g.status = "raise" THEN g
       ELSE IF g.value = None THEN Raise("AttributeError", g.c)
       ELSE LET vs == g.c.st.versions[bucket_name]
                params == IF TruthyStr(key_prefix)
                          THEN [Bucket |-> bucket_name, Prefix |-> key_prefix[1]]
                          ELSE [Bucket |-> bucket_name]
                objects == IF TruthyStr(key_prefix)
                           THEN SelectSeq(vs, LAMBDA v :
                                              HasPrefix(v.Key, key_prefix[1]))
                           ELSE vs
                l == Call(g.c, "list_object_versions", params, g.c.st)
            IN IF l.outcome # "ok" THEN Raise(l.outcome, l.c)
               ELSE LET targets == TargetsOf(objects)
                        d == Call(l.c, "delete_objects",
                                  [Bucket |-> bucket_name, Objects |-> targets,
                                   Quiet |-> TRUE],
                                  [l.c.st EXCEPT !.versions[bucket_name] =
                                      Remaining(@, targets)])
                    IN IF d.outcome # "ok" THEN Raise(d.outcome, d.c)
                       ELSE Return(Len(targets), d.c)

\* bucket.delete() then bucket.wait_until_not_exists() on one bucket.
DeleteAndWait(b, c) ==
    LET d == Call(c, "delete_bucket", [Bucket |-> b],
                  [buckets |-> c.st.buckets \ {b},
                   versions |-> [c.st.versions EXCEPT ![b] = << >>]])
    IN IF d.outcome # "ok" THEN d
       ELSE Call(d.c, "wait_bucket_not_exists", [Bucket |-> b], d.c.st)

\* A loop that logs the ClientError of a bucket and stops there.
RECURSIVE delete_loop_stop(_, _, _)
delete_loop_stop(bs, count, c) ==
    IF bs = << >> THEN Return(count, c)
    ELSE LET r == DeleteAndWait(Head(bs), c)
         IN IF r.outcome = "ok" THEN delete_loop_stop(Tail(bs), count + 1, r.c)
            ELSE IF r.outcome = "ClientError"
            THEN Return(count, Emit(r.c, LogEv("warning", Head(bs))))
            ELSE Raise(r.outcome, r.c)

\* The loop of delete_buckets over the account listing: a ClientError of a
\* bucket is logged and the loop goes on; anything else leaves the loop.
RECURSIVE delete_loop(_, _, _)
delete_loop(bs, count, c) ==
    IF bs = << >> THEN Return(count, c)
    ELSE LET r == DeleteAndWait(Head(bs), c)
         IN IF r.outcome = "ok" THEN delete_loop(Tail(bs), count + 1, r.c)
            ELSE IF r.outcome = "ClientError"
            THEN delete_loop(Tail(bs), count,
                             Emit(r.c, LogEv("warning", Head(bs))))
            ELSE Raise(r.outcome, r.c)

\* delete_buckets: the named bucket, or every bucket of the account.
delete_buckets(name, c) ==
    IF Truthy(name)
    THEN LET g == get_bucket(name[1], FALSE, None, c)
         IN IF g.status = "raise" THEN g
            ELSE IF g.value = None THEN Return(0, g.c)
            ELSE LET r == DeleteAndWait(name[1], g.c)
                 IN IF r.outcome # "ok" THEN Raise(r.outcome, r.c)
                    ELSE Return(1, r.c)
    ELSE LET l == Call(c, "list_buckets", EmptyDict, c.st)
             listing == SelectSeq(BucketOrder, LAMBDA b : b \in c.st.buckets)
         IN IF l.outcome # "ok" THEN Raise(l.outcome, l.c)
            ELSE delete_loop(listing, 0, l.c)

\* The regions a command line gives: the parser's default, or --region.
CliRegions == {"us-east-2", "eu-west-1"}

\* The buckets the object commands of the model are run on.
ObjectBuckets == {"b1"}

\* The keys and the destinations the download command is run with.
ObjectKeys == {KeyPool[1], <<"a", "/", "x">>}
Dests == {None, Some(<<"d">>), Some(<<"d", "/">>)}

\* The command lines of the object-storage program, as the parser hands them
\* to the dispatcher.
S3Argv ==
    {[command |-> "create_bucket", name |-> n, region |-> r] :
        n \in BucketNames, r \in CliRegions}
    \cup {[command |-> "list_buckets"]}
    \cup {[command |-> "get_bucket", name |-> n, region |-> r] :
        n \in BucketNames, r \in CliRegions}
    \cup {[command |-> "create_bucket_object", bucket_name |-> n,
           file_path |-> f, key_prefix |-> p] :
        n \in ObjectBuckets, f \in FilePaths, p \in KeyPrefixes}
    \cup {[command |-> "get_bucket_object", bucket_name |-> n,
           object_key |-> k, dest |-> d, version_id |-> v] :
        n \in ObjectBuckets, k \in ObjectKeys, d \in Dests,
        v \in {None, Some("v1")}}
    \cup {[command |-> "enable_bucket_versioning", bucket_name |-> n] :
        n \in ObjectBuckets}
    \cup {[command |-> "delete_bucket_objects", bucket_name |-> n,
           key_prefix |-> p] : n \in ObjectBuckets, p \in KeyPrefixes}
    \cup {[command |-> "delete_buckets", name |-> n] :
        n \in {None} \cup {Some(b) : b \in BucketNames}}

\* The dispatcher of the object-storage program.
s3_main(args, c) ==
    IF args.command = "create_bucket"
    THEN create_bucket(args.name, Some(args.region), c)
    ELSE IF args.command = "list_buckets"
    THEN list_buckets(c)
    ELSE IF args.command = "get_bucket"
    THEN get_bucket(args.name, FALSE, Some(args.region), c)
    ELSE IF args.command = "create_bucket_object"
    THEN create_bucket_object(args.bucket_name, args.file_path,
                              args.key_prefix, c)
    ELSE IF args.command = "get_bucket_object"
    THEN get_bucket_object(args.bucket_name, args.object_key, args.dest,
                           args.version_id, c)
    ELSE IF args.command = "enable_bucket_versioning"
    THEN enable_bucket_versioning(args.bucket_name, c)
    ELSE IF args.command = "delete_bucket_objects"
    THEN delete_bucket_objects(args.bucket_name, args.key_prefix, c)
    ELSE IF args.command = "delete_buckets"
    THEN delete_buckets(args.name, c)
    ELSE Return(None, c)

-----------------------------------------------------------------------------
(* sns_manager.py *)

\* Pagination tokens a caller may pass: none, the empty string, a token.
Tokens == {None, Some(""), Some("tokA"), Some("tokB")}

TopicArns == {"arn1", "arn2"}

\* The pages the service may answer a list call with: a dict that holds, or
\* lacks, the list and the token of the next page.
Pages(listKey) ==
    {[k \in ks |-> IF k = listKey THEN l ELSE Some(t)] :
        ks \in SUBSET {listKey, "NextToken"},
        l \in {<< >>, <<"arn1">>, <<"arn1", "arn2">>},
        t \in {"tokA", "tokB"}}

\* A read-only SDK call: the page the service answers with is c.st.
create_sns_topic(topic_name, c) ==
    LET r == Call(c, "create_topic", [Name |-> topic_name], c.st)
    IN IF r.outcome # "ok" THEN Raise(r.outcome, r.c) ELSE Return(TRUE, r.c)

\* A list_sns_topics that never passes the token on.
list_sns_topics_notoken(next_token, c) ==
    LET r == Call(c, "list_topics", EmptyDict, c.st)
        topics == c.st
    IN IF r.outcome # "ok" THEN Raise(r.outcome, r.c)
       ELSE Return(<<DictGet(topics, "Topics", << >>),
                     DictGet(topics, "NextToken", None)>>, r.c)

list_sns_topics(next_token, c) ==
    LET params == IF Truthy(next_token)
                  THEN [NextToken |-> next_token[1]] ELSE EmptyDict
        r == Call(c, "list_topics", params, c.st)
        topics == c.st
    IN IF r.outcome # "ok" THEN Raise(r.outcome, r.c)
       ELSE Return(<<DictGet(topics, "Topics", << >>),
                     DictGet(topics, "NextToken", None)>>, r.c)

list_sns_subscriptions(next_token, c) ==
    LET params == IF Truthy(next_token)
                  THEN [NextToken |-> next_token[1]] ELSE EmptyDict
        r == Call(c, "list_subscriptions", params, c.st)
        subscriptions == c.st
    IN IF r.outcome # "ok" THEN Raise(r.outcome, r.c)
       ELSE Return(<<DictGet(subscriptions, "Subscriptions", << >>),
                     DictGet(subscriptions, "NextToken", None)>>, r.c)

subscribe_sns_topic(topic_arn, mobile_number, c) ==
    LET r == Call(c, "subscribe",
                  [TopicArn |-> topic_arn, Protocol |-> "sms",
                   Endpoint |-> mobile_number], c.st)
    IN IF r.outcome # "ok" THEN Raise(r.outcome, r.c)
       ELSE Return(TRUE, Emit(r.c, PrintEv(c.st)))

send_sns_message(topic_arn, message, c) ==
    LET r == Call(c, "publish",
                  [TopicArn |-> topic_arn, Message |-> message], c.st)
    IN IF r.outcome # "ok" THEN Raise(r.outcome, r.c)
       ELSE Return(TRUE, Emit(r.c, PrintEv(c.st)))

unsubscribe_sns_topic(subscription_arn, c) ==
    LET r == Call(c, "unsubscribe",
                  [SubscriptionArn |-> subscription_arn], c.st)
    IN IF r.outcome # "ok" THEN Raise(r.outcome, r.c)
       ELSE Return(TRUE, Emit(r.c, PrintEv(c.st)))

delete_sns_topic(topic_arn, c) ==
    LET r == Call(c, "delete_topic", [TopicArn |-> topic_arn], c.st)
    IN IF r.outcome # "ok" THEN Raise(r.outcome, r.c) ELSE Return(TRUE, r.c)

\* The command lines of the notification program.
SnsArgv ==
    {[command |-> "create_sns_topic", topic_name |-> "n1"]}
    \cup {[command |-> "list_sns_topics"], [command |-> "list_sns_subscriptions"]}
    \cup {[command |-> "subscribe_sns_topic", topic_arn |-> a,
           mobile_number |-> "+1"] : a \in TopicArns}
    \cup {[command |-> "send_sns_message", topic_arn |-> a, message |-> "m"] :
           a \in TopicArns}
    \cup {[command |-> "unsubscribe_sns_topic", subscription_arn |-> "sub1"]}
    \cup {[command |-> "delete_sns_topic", topic_arn |-> a] : a \in TopicArns}

\* The dispatcher of the notification program: the two list commands print
\* what they return.
sns_main(args, c) ==
    IF args.command = "create_sns_topic"
    THEN create_sns_topic(args.topic_name, c)
    ELSE IF args.command = "list_sns_topics"
    THEN LET out == list_sns_topics(None, c)
         IN IF out.status = "raise" THEN out
            ELSE Return(None, Emit(out.c, PrintEv(out.value)))
    ELSE IF args.command = "subscribe_sns_topic"
    THEN subscribe_sns_topic(args.topic_arn, args.mobile_number, c)
    ELSE IF args.command = "list_sns_subscriptions"
    THEN LET out == list_sns_subscriptions(None, c)
         IN IF out.status = "raise" THEN out
            ELSE Return(None, Emit(out.c, PrintEv(out.value)))
    ELSE IF args.command = "send_sns_message"
    THEN send_sns_message(args.topic_arn, args.message, c)
    ELSE IF args.command = "unsubscribe_sns_topic"
    THEN unsubscribe_sns_topic(args.subscription_arn, c)
    ELSE IF args.command = "delete_sns_topic"
    THEN delete_sns_topic(args.topic_arn, c)
    ELSE Return(None, c)

-----------------------------------------------------------------------------
(* cwlogs_manager.py *)

GroupNames == {"", "g1"}
OptNames == {None, Some(""), Some("s1")}
OptTimes == {None, Some("100")}
OptRegions == {None, Some("eu-west-1")}

\* What the service answers a describe/filter call with: the list under the
\* operation's key.
LogLists == {<< >>, <<"e1">>, <<"e1", "e2">>}

\* boto3.client('logs', region_name=...)
ClientEv(region_name) ==
    [kind |-> "client", service |-> "logs", region_name |-> region_name]

\* A dict of the entries given, as <<key, present, value>>: the absent ones
\* are left out.
DictOf(entries) ==
    LET ks == {e[1] : e \in {x \in entries : x[2]}}
    IN [k \in ks |-> (CHOOSE e \in entries : e[1] = k)[3]]

list_log_groups(group_name, region_name, c) ==
    LET c1 == Emit(c, ClientEv(region_name))
        params == DictOf({<<"logGroupNamePrefix", Truthy(group_name),
                            IF Truthy(group_name) THEN group_name[1] ELSE "">>})
        r == Call(c1, "describe_log_groups", params, c.st)
    IN IF r.outcome # "ok" THEN Raise(r.outcome, r.c)
       ELSE Return(c.st, r.c)

list_log_group_streams(group_name, stream_name, region_name, c) ==
    LET c1 == Emit(c, ClientEv(region_name))
        params == DictOf({<<"logGroupName", group_name # "", group_name>>,
                          <<"logStreamNamePrefix", Truthy(stream_name),
                            IF Truthy(stream_name) THEN stream_name[1] ELSE "">>})
        r == Call(c1, "describe_log_streams", params, c.st)
    IN IF r.outcome # "ok" THEN Raise(r.outcome, r.c)
       ELSE Return(c.st, r.c)

filter_log_events(group_name, filter_pat, start, stop, region_name, c) ==
    LET c1 == Emit(c, ClientEv(region_name))
        params == DictOf({<<"logGroupName", TRUE, group_name>>,
                          <<"filterPattern", TRUE, filter_pat>>,
                          <<"startTime", Truthy(start),
                            IF Truthy(start) THEN start[1] ELSE "">>,
                          <<"endTime", Truthy(stop),
                            IF Truthy(stop) THEN stop[1] ELSE "">>})
        r == Call(c1, "filter_log_events", params, c.st)
    IN IF r.outcome # "ok" THEN Raise(r.outcome, r.c)
       ELSE Return(c.st, r.c)

\* The namespaces the parser of the log program produces: one attribute per
\* argument the subcommand's parser declares, plus the command.
LogsArgv ==
    {[command |-> "list_log_groups", group_name |-> g, region |-> r] :
        g \in OptNames, r \in OptRegions}
    \cup {[command |-> "list_log_group_streams", group_name |-> g,
           stream_name |-> s, region_name |-> r] :
        g \in GroupNames, s \in OptNames, r \in OptRegions}
    \cup {[command |-> "filter_log_events", group_name |-> g,
           filter_pat |-> "pat", start |-> a, stop |-> b, region_name |-> r] :
        g \in GroupNames, a \in OptTimes, b \in OptTimes, r \in OptRegions}

\* Reading an attribute the namespace lacks raises AttributeError.
HasAttrs(args, names) == names \subseteq DOMAIN args

\* The dispatcher of the log program.
logs_main(args, c) ==
    IF args.command = "list_log_groups"
    THEN IF ~HasAttrs(args, {"group_name", "region_name"})
         THEN Raise("AttributeError", c)
         ELSE LET out == list_log_groups(args.group_name, args.region_name, c)
              IN IF out.status = "raise" THEN out
                 ELSE Return(None, Emit(out.c, PrintEv(out.value)))
    ELSE IF args.command = "list_log_group_streams"
    THEN IF ~HasAttrs(args, {"group_name", "stream_name", "region_name"})
         THEN Raise("AttributeError", c)
         ELSE LET out == list_log_group_streams(args.group_name,
                                args.stream_name, args.region_name, c)
              IN IF out.status = "raise" THEN out
                 ELSE Return(None, Emit(out.c, PrintEv(out.value)))
    ELSE IF args.command = "filter_log_events"
    THEN IF ~HasAttrs(args, {"group_name", "filter_pat", "start", "stop",
                             "region_name"})
         THEN Raise("AttributeError", c)
         ELSE LET out == filter_log_events(args.group_name, args.filter_pat,
                                args.start, args.stop, args.region_name, c)
              IN IF out.status = "raise" THEN out
                 ELSE Return(None, out.c)
    ELSE Return(None, c)

-----------------------------------------------------------------------------
(* The invocations *)

\* Objects a bucket holds at most at the start, and the length of a version
\* listing beyond which the model uploads no more.
MaxObjs == 1

\* The batch limit of the remote delete call.
MaxBatch == 1000

\* The bulk listings reach from MaxBatch - Margin to MaxBatch + Margin, and
\* the small ones from 0 to SmallN.
Margin == 1
SmallN == 3

BulkCounts == (0..SmallN) \cup ((MaxBatch - Margin)..(MaxBatch + Margin))

NoCmd == [prog |-> "none"]
NoResult == [status |-> "none", value |-> None]

\* An account of some buckets; those of ObjectBuckets hold a few
\* object-versions.
S3Init ==
    /\ cmd = NoCmd /\ trace = << >> /\ result = NoResult
    /\ tables = {}
    /\ buckets \in SUBSET BucketNames
    /\ versions \in [BucketNames -> {Listing(n) : n \in 0..MaxObjs}]
    /\ \A b \in BucketNames \ (buckets \cap ObjectBuckets) : versions[b] = << >>

\* An account whose bucket b1 holds a listing around the batch limit.
S3BulkInit ==
    /\ cmd = NoCmd /\ trace = << >> /\ result = NoResult
    /\ tables = {}
    /\ buckets \in {{"b1"}, {"b1", "b2"}}
    /\ \E n \in BulkCounts :
          versions = [NoVersions EXCEPT !["b1"] = Listing(n)]

\* Some tables exist.
DynamoInit ==
    /\ cmd = NoCmd /\ trace = << >> /\ result = NoResult
    /\ buckets = {} /\ versions = NoVersions
    /\ tables \in SUBSET TableNames

\* The notification and the log programs keep no state of their own.
StatelessInit ==
    /\ cmd = NoCmd /\ trace = << >> /\ result = NoResult
    /\ buckets = {} /\ versions = NoVersions
    /\ tables = {}

Finish(r) ==
    /\ trace' = r.c.trace
    /\ result' = [status |-> r.status, value |-> r.value]

S3Finish(r) ==
    /\ buckets' = r.c.st.buckets
    /\ versions' = r.c.st.versions
    /\ Finish(r)
    /\ UNCHANGED tables

\* The process (or the caller) is done: the next invocation starts afresh.
Exit ==
    /\ cmd # NoCmd
    /\ cmd' = NoCmd
    /\ trace' = << >>
    /\ result' = NoResult
    /\ UNCHANGED <<buckets, versions, tables>>

\* The remote calls an invocation of the object-storage program makes at most.
S3Calls(args) ==
    IF args.command = "delete_buckets" /\ ~Truthy(args.name)
    THEN 1 + 2 * Cardinality(buckets)
    ELSE 3

\* python s3_manager.py <argv>
S3Main ==
    /\ cmd = NoCmd
    /\ \E args \in S3Argv :
        /\ args.command = "create_bucket_object"
              => Len(versions[args.bucket_name]) < MaxObjs
        /\ \E orc \in Oracles(S3Calls(args)) :
            LET st == S3State(buckets, versions)
                r == s3_main(args, Ctx(st, orc))
            IN /\ cmd' = [prog |-> "s3", via |-> "cli", fn |-> args.command,
                          args |-> args, pre |-> st]
               /\ S3Finish(r)

\* get_bucket(name, create, region) called as a function.
GetBucketCall ==
    /\ cmd = NoCmd
    /\ \E name \in BucketNames, create \in BOOLEAN, region \in Regions,
          orc \in Oracles(3) :
        LET st == S3State(buckets, versions)
            r == get_bucket(name, create, region, Ctx(st, orc))
        IN /\ cmd' = [prog |-> "s3", via |-> "call", fn |-> "get_bucket",
                      args |-> [name |-> name, create |-> create,
                                region |-> region],
                      pre |-> st]
           /\ S3Finish(r)

\* delete_bucket_objects(bucket_name, key_prefix) called as a function.
DeleteBucketObjectsCall ==
    /\ cmd = NoCmd
    /\ \E name \in BucketNames, key_prefix \in KeyPrefixes, orc \in Oracles(3) :
        LET st == S3State(buckets, versions)
            r == delete_bucket_objects(name, key_prefix, Ctx(st, orc))
        IN /\ cmd' = [prog |-> "s3", via |-> "call",
                      fn |-> "delete_bucket_objects",
                      args |-> [bucket_name |-> name, key_prefix |-> key_prefix],
                      pre |-> st]
           /\ S3Finish(r)

\* python dynamo_manager.py <argv>
DynamoMain ==
    /\ cmd = NoCmd
    /\ \E pargs \in DynamoArgv, orc \in Oracles(2) :
        LET r == dynamo_main(pargs, Ctx(tables, orc))
        IN /\ cmd' = [prog |-> "dynamo", via |-> "cli", args |-> pargs,
                      pre |-> tables]
           /\ tables' = r.c.st
           /\ Finish(r)
           /\ UNCHANGED <<buckets, versions>>

\* parse_tabledef(conf_file) called as a function.
ParseTabledefCall ==
    /\ cmd = NoCmd
    /\ \E f \in TableDefFiles :
        LET r == parse_tabledef(f, Ctx(tables, << >>))
        IN /\ cmd' = [prog |-> "dynamo", via |-> "call", fn |-> "parse_tabledef",
                      args |-> [conf_file |-> f]]
           /\ Finish(r)
           /\ UNCHANGED <<buckets, versions, tables>>

\* python sns_manager.py <argv>
SnsMain ==
    /\ cmd = NoCmd
    /\ \E args \in SnsArgv, orc \in Oracles(1),
          page \in Pages("Topics") \cup Pages("Subscriptions") :
        LET r == sns_main(args, Ctx(page, orc))
        IN /\ cmd' = [prog |-> "sns", via |-> "cli", fn |-> args.command,
                      args |-> args, page |-> page]
           /\ Finish(r)
           /\ UNCHANGED <<buckets, versions, tables>>

\* list_sns_topics(next_token) called as a function.
ListSnsTopicsCall ==
    /\ cmd = NoCmd
    /\ \E tok \in Tokens, orc \in Oracles(1), page \in Pages("Topics") :
        LET r == list_sns_topics(tok, Ctx(page, orc))
        IN /\ cmd' = [prog |-> "sns", via |-> "call", fn |-> "list_sns_topics",
                      args |-> [next_token |-> tok], page |-> page]
           /\ Finish(r)
           /\ UNCHANGED <<buckets, versions, tables>>

\* list_sns_subscriptions(next_token) called as a function.
ListSnsSubscriptionsCall ==
    /\ cmd = NoCmd
    /\ \E tok \in Tokens, orc \in Oracles(1), page \in Pages("Subscriptions") :
        LET r == list_sns_subscriptions(tok, Ctx(page, orc))
        IN /\ cmd' = [prog |-> "sns", via |-> "call",
                      fn |-> "list_sns_subscriptions",
                      args |-> [next_token |-> tok], page |-> page]
           /\ Finish(r)
           /\ UNCHANGED <<buckets, versions, tables>>

\* python cwlogs_manager.py <argv>
LogsMain ==
    /\ cmd = NoCmd
    /\ \E args \in LogsArgv, orc \in Oracles(1), page \in LogLists :
        LET r == logs_main(args, Ctx(page, orc))
        IN /\ cmd' = [prog |-> "logs", via |-> "cli", fn |-> args.command,
                      args |-> args, page |-> page]
           /\ Finish(r)
           /\ UNCHANGED <<buckets, versions, tables>>

\* list_log_groups(group_name, region_name) called as a function.
ListLogGroupsCall ==
    /\ cmd = NoCmd
    /\ \E g \in OptNames, reg \in OptRegions, orc \in Oracles(1),
          page \in LogLists :
        LET r == list_log_groups(g, reg, Ctx(page, orc))
        IN /\ cmd' = [prog |-> "logs", via |-> "call", fn |-> "list_log_groups",
                      args |-> [group_name |-> g, region_name |-> reg],
                      page |-> page]
           /\ Finish(r)
           /\ UNCHANGED <<buckets, versions, tables>>

S3Next == S3Main \/ GetBucketCall \/ Exit
S3BulkNext == DeleteBucketObjectsCall \/ Exit
DynamoNext == DynamoMain \/ ParseTabledefCall \/ Exit
SnsNext == SnsMain \/ ListSnsTopicsCall \/ ListSnsSubscriptionsCall \/ Exit
LogsNext == LogsMain \/ ListLogGroupsCall \/ Exit

\* The object-storage program.
SpecS3 == S3Init /\ [][S3Next]_vars

\* delete_bucket_objects on listings around the batch limit.
SpecS3Bulk == S3BulkInit /\ [][S3BulkNext]_vars

\* The table-store program.
SpecDynamo == DynamoInit /\ [][DynamoNext]_vars

\* The notification program.
SpecSns == StatelessInit /\ [][SnsNext]_vars

\* The log-storage program.
SpecLogs == StatelessInit /\ [][LogsNext]_vars

-----------------------------------------------------------------------------
(* Properties of the table-store program *)

IsDynamoCli == cmd.prog = "dynamo" /\ cmd.via = "cli"
IsParseCall == cmd.prog = "dynamo" /\ cmd.via = "call"

KeySetOf(file) == {file[i][1] : i \in DOMAIN file}
RequiredKeySet == {"table_name", "pk", "pkdef"}

IsOkCall(ev, api) == ev.kind = "call" /\ ev.api = api /\ ev.outcome = "ok"
IsDone(ev) == ev.kind = "print" /\ ev.text = "Done"

\* C1: parse_tabledef succeeds, with the file's three values, on every file
\* whose key set is exactly {table_name, pk, pkdef}; it fails with KeyError
\* on every other file, and then the create command issues no create call.
C1_ParseAcceptsExactKeySet ==
    /\ IsParseCall =>
          LET file == cmd.args.conf_file IN
          IF KeySetOf(file) = RequiredKeySet
          THEN /\ result.status = "return"
               /\ \A k \in RequiredKeySet :
                     \E i \in DOMAIN file : file[i] = <<k, result.value.val[k]>>
          ELSE result.status = "raise" /\ result.value = "KeyError"
    /\ (IsDynamoCli /\ cmd.args.sub = "create_table") =>
          (KeySetOf(cmd.args.tabledef) # RequiredKeySet
              => /\ result = [status |-> "raise", value |-> "KeyError"]
                 /\ CallsOf(trace) = << >>)

\* C6: the create command prints 'Done' (and returns) only after a
\* successful create_table call followed by a completed wait for the table
\* to exist; the delete command only after a successful delete call followed
\* by a completed wait for the table not to exist; no wait is started before
\* its create/delete call has succeeded.
C6_DoneOnlyAfterWait ==
    (IsDynamoCli /\ cmd.args.sub \in {"create_table", "delete_table"}) =>
        LET create == cmd.args.sub = "create_table"
            api == IF create THEN "create_table" ELSE "delete_table"
            wait == IF create THEN "wait_table_exists"
                    ELSE "wait_table_not_exists"
            done == {p \in DOMAIN trace : IsDone(trace[p])}
            name == IF create
                    THEN json_loads(cmd.args.tabledef).val["table_name"]
                    ELSE cmd.args.tablename
        IN /\ (result.status = "return") <=> (done # {})
           /\ \A p \in done :
                 /\ p = Len(trace)
                 /\ \E i, j \in 1..p :
                       /\ i < j /\ j < p
                       /\ IsOkCall(trace[i], api)
                       /\ IsOkCall(trace[j], wait)
                       /\ trace[i].params.TableName = name
                       /\ trace[j].params.TableName = name
           /\ \A j \in DOMAIN trace :
                 (trace[j].kind = "call" /\ trace[j].api = wait)
                    => \E i \in 1..(j - 1) : IsOkCall(trace[i], api)

\* C6 happens: a create command has returned with 'Done' printed, and a
\* table was created.
C6_Witness ==
    /\ IsDynamoCli /\ cmd.args.sub = "create_table"
    /\ result.status = "return"
    /\ \E p \in DOMAIN trace : IsDone(trace[p])
    /\ tables # cmd.pre

-----------------------------------------------------------------------------
(* Properties of the object-storage program *)

IsS3 == cmd.prog = "s3"
IsGetBucketCreate ==
    /\ IsS3 /\ cmd.via = "call" /\ cmd.fn = "get_bucket" /\ cmd.args.create
IsGetBucketPlain ==
    /\ IsS3 /\ cmd.fn = "get_bucket"
    /\ (cmd.via = "cli" \/ ~cmd.args.create)
IsDeleteAll ==
    /\ IsS3 /\ cmd.fn = "delete_buckets" /\ ~Truthy(cmd.args.name)
IsDeleteObjects == IsS3 /\ cmd.fn = "delete_bucket_objects"

\* The bucket was missing when the invocation started, and the first fetch
\* was answered.
FoundMissing ==
    /\ cmd.args.name \notin cmd.pre.buckets
    /\ trace[1].outcome = "ok"

IsLoadOf(ev, name) ==
    ev.kind = "call" /\ ev.api = "load_bucket" /\ ev.params.Bucket = name

\* C2 as stated: with the create flag, on a missing bucket, the calls are
\* fetch, create, fetch and the result is a handle named `name`, whether the
\* create call succeeds or answers a provider error.
C2_CreateAlwaysYieldsHandle ==
    (IsGetBucketCreate /\ FoundMissing) =>
        LET calls == CallsOf(trace) IN
        (Len(calls) >= 2 /\ calls[2].outcome \in {"ok", "ClientError"}
                         /\ (Len(calls) >= 3 => calls[3].outcome = "ok")) =>
            /\ Len(calls) = 3
            /\ calls[2].api = "create_bucket"
            /\ IsLoadOf(calls[3], cmd.args.name)
            /\ result = [status |-> "return",
                         value |-> Some(BucketHandle(cmd.args.name))]

\* C2, amended: with the create flag, on a missing bucket, exactly one
\* create call is issued; when it succeeds or answers a provider error,
\* exactly one re-fetch follows it (no further call, no second create); the
\* result is a handle named `name` when the create succeeded and the empty
\* value when the create answered a provider error.
C2_CreateThenRefetch ==
    (IsGetBucketCreate /\ FoundMissing) =>
        LET calls == CallsOf(trace)
            creates == ApiCalls(trace, "create_bucket")
            name == cmd.args.name
        IN /\ Len(creates) = 1
           /\ Len(calls) \in {2, 3}
           /\ calls[2].api = "create_bucket"
           /\ calls[2].params.Bucket = name
           /\ calls[2].outcome \in {"ok", "ClientError"}
                 => Len(calls) = 3 /\ IsLoadOf(calls[3], name)
           /\ calls[2].outcome = "OtherError"
                 => Len(calls) = 2 /\ result.status = "raise"
           /\ (Len(calls) = 3 /\ calls[3].outcome = "ok") =>
                 /\ result.status = "return"
                 /\ calls[2].outcome = "ok"
                       => result.value = Some(BucketHandle(name))
                 /\ calls[2].outcome = "ClientError" => result.value = None
           /\ result.status = "return"
                 => result.value \in {None, Some(BucketHandle(name))}

\* C2 happens: the bucket was missing, was created, and the handle came back.
C2_Witness ==
    /\ IsGetBucketCreate /\ FoundMissing
    /\ result = [status |-> "return",
                 value |-> Some(BucketHandle(cmd.args.name))]
    /\ cmd.args.name \in buckets

\* C9: without the create flag (the CLI subcommand included, for every name
\* and region), get_bucket on a missing bucket returns the empty value,
\* raises nothing, and issues no call but the fetch: no create call, nothing
\* changed remotely. The CLI subcommand never issues a create call.
C9_PlainGetReturnsEmpty ==
    /\ (IsGetBucketPlain /\ FoundMissing) =>
          /\ result = [status |-> "return", value |-> None]
          /\ Len(CallsOf(trace)) = 1
          /\ IsLoadOf(trace[1], cmd.args.name)
          /\ trace[Len(trace)] = LogEv("warning", cmd.args.name)
          /\ buckets = cmd.pre.buckets /\ versions = cmd.pre.versions
    /\ (IsS3 /\ cmd.via = "cli" /\ cmd.fn = "get_bucket") =>
          /\ ApiCalls(trace, "create_bucket") = << >>
          /\ buckets = cmd.pre.buckets /\ versions = cmd.pre.versions

\* C9 happens: the CLI get_bucket on a missing bucket has returned empty.
C9_Witness ==
    /\ IsS3 /\ cmd.via = "cli" /\ cmd.fn = "get_bucket"
    /\ FoundMissing
    /\ result.status = "return" /\ result.value = None

\* The account listing the delete-all loop walks.
ListingOf(bs) == SelectSeq(BucketOrder, LAMBDA b : b \in bs)

NoOtherError ==
    \A i \in DOMAIN trace :
        trace[i].kind = "call" => trace[i].outcome # "OtherError"

\* C5: delete_buckets() with no name, the listing answered and no failure
\* other than provider errors: a delete is attempted on every bucket of the
\* listing, in order; every provider error of a delete or of a wait is
\* followed by a warning for that bucket and not raised; the call returns
\* normally, with the number of buckets deleted and waited for.
C5_DeleteAllGoesOn ==
    (IsDeleteAll /\ trace[1].outcome = "ok" /\ NoOtherError) =>
        LET listing == ListingOf(cmd.pre.buckets)
            dels == ApiCalls(trace, "delete_bucket")
            waited == SelectSeq(trace, LAMBDA ev :
                          IsOkCall(ev, "wait_bucket_not_exists"))
        IN /\ result.status = "return"
           /\ result.value = Len(waited)
           /\ Len(dels) = Len(listing)
           /\ \A i \in DOMAIN listing : dels[i].params.Bucket = listing[i]
           /\ \A i \in DOMAIN trace :
                 (trace[i].kind = "call" /\ trace[i].outcome = "ClientError")
                    => /\ i < Len(trace)
                       /\ trace[i + 1] = LogEv("warning", trace[i].params.Bucket)

\* C5 happens: the delete of the first of several buckets answered a
\* provider error, and a later bucket was deleted all the same.
C5_Witness ==
    /\ IsDeleteAll
    /\ Cardinality(cmd.pre.buckets) >= 2
    /\ Len(trace) >= 2 /\ trace[2].outcome = "ClientError"
    /\ result.status = "return" /\ result.value >= 1

\* C7 as stated: a provider error answered to any call other than
\* create_bucket's ends the invocation with that error; create_bucket
\* answers False to it, and True to a success.
C7_OnlyCreateBucketCatches ==
    IsS3 =>
        /\ \A i \in DOMAIN trace :
              (trace[i].kind = "call" /\ trace[i].outcome = "ClientError"
                  /\ trace[i].api # "create_bucket")
                 => /\ i = Len(trace)
                    /\ result = [status |-> "raise", value |-> "ClientError"]
        /\ cmd.fn = "create_bucket" =>
              /\ trace[1].outcome = "ok" => result.value = TRUE
              /\ trace[1].outcome = "ClientError" => result.value = FALSE

\* C7, amended: a provider error is caught in create_bucket (logged, False
\* returned, True on success) and in the no-name loop of delete_buckets
\* (logged, the loop goes on), and nowhere else: answered to any other call
\* it ends the invocation with that error.
C7_CatchSites ==
    IsS3 =>
        /\ \A i \in DOMAIN trace :
              (trace[i].kind = "call" /\ trace[i].outcome = "ClientError") =>
                 IF trace[i].api = "create_bucket"
                 THEN /\ i < Len(trace)
                      /\ trace[i + 1] = LogEv("error", trace[i].params.Bucket)
                 ELSE IF IsDeleteAll /\ trace[i].api \in
                             {"delete_bucket", "wait_bucket_not_exists"}
                 THEN /\ i < Len(trace)
                      /\ trace[i + 1] = LogEv("warning", trace[i].params.Bucket)
                 ELSE /\ i = Len(trace)
                      /\ result = [status |-> "raise", value |-> "ClientError"]
        /\ cmd.fn = "create_bucket" =>
              /\ trace[1].outcome = "ok"
                    => result = [status |-> "return", value |-> TRUE]
              /\ trace[1].outcome = "ClientError"
                    => result = [status |-> "return", value |-> FALSE]
        /\ (result.status = "raise" /\ result.value = "ClientError")
              => trace[Len(trace)].outcome = "ClientError"

\* C7 happens: create_bucket was answered a provider error and returned
\* False.
C7_Witness ==
    /\ IsS3 /\ cmd.fn = "create_bucket"
    /\ trace[1].outcome = "ClientError"
    /\ result = [status |-> "return", value |-> FALSE]

\* The versions a delete_bucket_objects invocation selects: those of the
\* bucket when it started, under the prefix when one is given.
Selected ==
    LET vs == cmd.pre.versions[cmd.args.bucket_name]
        p == cmd.args.key_prefix
    IN IF p # None /\ Len(p[1]) > 0
       THEN SelectSeq(vs, LAMBDA v : Len(v.Key) >= Len(p[1]) /\
                          \A i \in 1..Len(p[1]) : v.Key[i] = p[1][i])
       ELSE vs

\* C3: delete_bucket_objects on an existing bucket with N <= 1000 versions
\* selected: at most one delete call is ever issued; once the bucket and the
\* listing are fetched, exactly one, listing exactly the N (key, version id)
\* pairs of the listing in order; and the value returned is N.
C3_OneBatchedDelete ==
    (IsDeleteObjects /\ cmd.args.bucket_name \in cmd.pre.buckets
        /\ Len(Selected) <= MaxBatch) =>
        LET calls == CallsOf(trace)
            dels == ApiCalls(trace, "delete_objects")
            N == Len(Selected)
        IN /\ Len(dels) <= 1
           /\ (Len(calls) >= 2 /\ calls[1].outcome = "ok"
                  /\ calls[2].outcome = "ok") =>
                 /\ Len(dels) = 1
                 /\ Len(dels[1].params.Objects) = N
                 /\ \A i \in 1..N :
                       /\ dels[1].params.Objects[i].Key = Selected[i].Key
                       /\ dels[1].params.Objects[i].VersionId
                             = Selected[i].VersionId
           /\ (\A i \in DOMAIN calls : calls[i].outcome = "ok")
                 => result.status = "return"
           /\ result.status = "return"
                 => result.value = N /\ Len(dels) = 1

\* C3 happens: exactly MaxBatch versions were selected and deleted in one
\* call.
C3_Witness ==
    /\ IsDeleteObjects
    /\ cmd.args.bucket_name \in cmd.pre.buckets
    /\ Len(Selected) = MaxBatch
    /\ result = [status |-> "return", value |-> MaxBatch]
    /\ versions[cmd.args.bucket_name] = << >>

\* C4: no delete call of delete_bucket_objects lists more than 1000 targets.
C4_BatchWithinLimit ==
    IsDeleteObjects =>
        \A i \in DOMAIN trace :
            (trace[i].kind = "call" /\ trace[i].api = "delete_objects")
               => Len(trace[i].params.Objects) <= MaxBatch

-----------------------------------------------------------------------------
(* Properties of the notification program *)

IsListTopicsCall ==
    cmd.prog = "sns" /\ cmd.via = "call" /\ cmd.fn = "list_sns_topics"

\* The pair list_sns_topics returns for a page of the service.
PairOf(page) ==
    <<IF "Topics" \in DOMAIN page THEN page["Topics"] ELSE << >>,
      IF "NextToken" \in DOMAIN page THEN page["NextToken"] ELSE None>>

\* C8 as stated: one list-topics call; every token the caller supplies is
\* forwarded unchanged as NextToken, and without a token the call has no
\* pagination parameter; the pair returned is taken from the response.
C8_EveryTokenForwarded ==
    IsListTopicsCall =>
        LET calls == CallsOf(trace)
            tok == cmd.args.next_token
        IN /\ Len(calls) = 1 /\ calls[1].api = "list_topics"
           /\ tok # None => /\ DOMAIN calls[1].params = {"NextToken"}
                             /\ calls[1].params.NextToken = tok[1]
           /\ tok = None => DOMAIN calls[1].params = {}
           /\ calls[1].outcome = "ok" =>
                 result = [status |-> "return", value |-> PairOf(cmd.page)]

\* C8, amended: one list-topics call; every non-empty token the caller
\* supplies is forwarded unchanged as NextToken; without a token, or with an
\* empty one, the call has no pagination parameter; the pair returned is
\* (Topics or the empty list, NextToken or None) of the response.
C8_NonEmptyTokenForwarded ==
    IsListTopicsCall =>
        LET calls == CallsOf(trace)
            tok == cmd.args.next_token
        IN /\ Len(calls) = 1 /\ calls[1].api = "list_topics"
           /\ (tok # None /\ tok[1] # "") =>
                 /\ DOMAIN calls[1].params = {"NextToken"}
                 /\ calls[1].params.NextToken = tok[1]
           /\ (tok = None \/ tok[1] = "") => DOMAIN calls[1].params = {}
           /\ calls[1].outcome = "ok" =>
                 result = [status |-> "return", value |-> PairOf(cmd.page)]
           /\ calls[1].outcome # "ok" => result.status = "raise"

\* C8 happens: a token was forwarded, and the response lacked both the list
\* and the next token.
C8_Witness ==
    /\ IsListTopicsCall
    /\ cmd.args.next_token = Some("tokA")
    /\ DOMAIN cmd.page = {}
    /\ Len(trace) = 1 /\ trace[1].params.NextToken = "tokA"
    /\ result = [status |-> "return", value |-> <<(<< >>), None>>]

-----------------------------------------------------------------------------
(* Properties of the log-storage program *)

ApiOf(command) ==
    IF command = "list_log_groups" THEN "describe_log_groups"
    ELSE IF command = "list_log_group_streams" THEN "describe_log_streams"
    ELSE "filter_log_events"

\* C10: for each subcommand and every combination of its flags, the
\* dispatcher runs the matching function, which issues exactly one remote
\* call, and the list it returns is printed.
C10_EveryCommandCallsAndPrints ==
    (cmd.prog = "logs" /\ cmd.via = "cli") =>
        LET calls == CallsOf(trace) IN
        /\ Len(calls) = 1
        /\ calls[1].api = ApiOf(cmd.fn)
        /\ calls[1].outcome = "ok" =>
              /\ result.status = "return"
              /\ \E i \in DOMAIN trace : trace[i] = PrintEv(cmd.page)

\* C10, one command at a time: list_log_group_streams does as C10 says.
C10_StreamsCallsAndPrints ==
    (cmd.prog = "logs" /\ cmd.via = "cli"
        /\ cmd.fn = "list_log_group_streams") =>
        LET calls == CallsOf(trace) IN
        /\ Len(calls) = 1
        /\ calls[1].api = ApiOf(cmd.fn)
        /\ calls[1].outcome = "ok" =>
              /\ result.status = "return"
              /\ \E i \in DOMAIN trace : trace[i] = PrintEv(cmd.page)

\* C10, one command at a time: list_log_groups issues its call.
C10_GroupsCalls ==
    (cmd.prog = "logs" /\ cmd.via = "cli" /\ cmd.fn = "list_log_groups")
        => Len(CallsOf(trace)) = 1

\* C10, one command at a time: filter_log_events prints what it returns.
C10_FilterPrints ==
    (cmd.prog = "logs" /\ cmd.via = "cli" /\ cmd.fn = "filter_log_events"
        /\ Len(CallsOf(trace)) = 1 /\ CallsOf(trace)[1].outcome = "ok")
        => \E i \in DOMAIN trace : trace[i] = PrintEv(cmd.page)

====
